---- MODULE Spec2Model ----
(***************************************************************************)
(* A model of the YouTube downloader backend (src/app.py): the download    *)
(* request handler with the engine's progress callbacks, the in-memory     *)
(* job table, the download folder with its sweeper and post-serve cleanup, *)
(* the video format selection of /api/download and the format grouping of  *)
(* /api/info.                                                              *)
(*                                                                         *)
(* Time.  The code reads the wall clock in three places: the progress hook *)
(* (0.3 s throttle), the sweeper (300 s period, 300 s retention) and the   *)
(* post-serve cleanup (120 s sleep).  The model keeps, instead of absolute *)
(* times, the age of each timestamp, saturated just past the threshold it  *)
(* is compared with.  since_update counts tenths of a second; file ages,   *)
(* the sweeper's sleep and the cleanup threads' sleeps count seconds and   *)
(* advance in steps of LongStep, since_update in steps of ShortStep.       *)
(***************************************************************************)
EXTENDS Integers, Sequences, FiniteSets, TLC

\* ------------------------------------------------------------------ bounds
\* Largest byte count (in chunks) the engine reports in a progress event.
MaxBytes == 2
\* Most post-serve cleanup threads asleep at a time.
MaxCleanups == 1
\* Most variants in the engine's list.
MaxLen == 2

\* ------------------------------------------------------- program constants
\* ProgressHook.__call__: "time.time() - self.last_update < 0.3", in tenths of a second.
Throttle == 3
\* cleanup_old_files: "current_time - st_mtime > 300", seconds.
Retention == 300
\* periodic_cleanup: "time.sleep(300)", seconds.
SweepPeriod == 300
\* serve_file.cleanup: "time.sleep(120)", seconds.
ServeDelay == 120
\* The step of the coarse clock, in seconds: half a sweep period, which is no less
\* than ServeDelay.
LongStep == SweepPeriod \div 2
\* The step of the fine clock, in tenths of a second.
ShortStep == Throttle

\* download_id values (str(uuid.uuid4())[:8]); one request per id.
Jobs == {"1f0c9a2e"}

Min(a, b) == IF a < b THEN a ELSE b

VARIABLES
    pc,                 \* per request: where download_video stands
    download_progress,  \* the job table: a dict keyed by download_id
    since_update,       \* per hook: time since self.last_update, saturated at Throttle
    nfiles,             \* per request: files the format string asks the engine for
    file_no,            \* per request: the file the engine is fetching (1 or 2)
    downloaded,         \* per request: downloaded_bytes of the last progress event
    total_bytes,        \* per request: the current file's total_bytes (0: not known)
    files,              \* the download folder: file name -> age of its mtime
    response,           \* per request: the HTTP response of /api/download, or NoResponse
    polled,             \* the last /api/progress response
    cleanups,           \* the running post-serve cleanup threads
    sweep_slept,        \* how long periodic_cleanup has slept
    formats,            \* info['formats']: the engine's variant list for the url
    quality,            \* data.get('quality', '') of a download request
    fetch,              \* what download_video decided to fetch, or Pending
    candidates,         \* what get_video_info answered, or Pending
    convert_to,         \* data.get('convert_to', None) of an audio download request
    has_ffmpeg          \* whether ffmpeg_location is set or ffmpeg is on the PATH

job_vars == <<pc, download_progress, since_update, nfiles, file_no, downloaded, total_bytes,
              files, response, polled, cleanups, sweep_slept>>
format_vars == <<formats, quality, fetch, candidates>>
convert_vars == <<convert_to, has_ffmpeg>>
vars == <<job_vars, format_vars, convert_vars>>

\* ------------------------------------------------------------ dictionaries
EmptyDict == [x \in {} |-> x]
Put(d, k, v) == [x \in DOMAIN d \cup {k} |-> IF x = k THEN v ELSE d[x]]
Remove(d, ks) == [x \in DOMAIN d \ ks |-> d[x]]

\* ---------------------------------------------------------------- messages
\* Texts are sequences of words, so that "'403' in error_msg" is computed.
Contains(msg, word) == \E i \in 1..Len(msg) : msg[i] = word

\* str(e) of the engine's DownloadError: its raw diagnostic text.
RawErrors ==
    { <<"ERROR:", "unable", "to", "download", "video", "data:", "HTTP", "Error", "403", "Forbidden">>,
      <<"ERROR:", "Private", "video.", "Sign", "in", "if", "you", "have", "access">> }

MsgInvalidUrl == <<"Please", "enter", "a", "valid", "YouTube", "URL">>
MsgBlocked == <<"YouTube", "blocked", "this", "request.", "Try", "again", "or", "select",
                "a", "different", "quality.">>
MsgTryOther == <<"Download", "failed.", "Try", "a", "different", "quality.">>
MsgFailed == <<"Download", "failed">>
MsgNotFound == <<"Download", "failed", "-", "file", "not", "found">>

NoResponse == [code |-> 0]

\* ------------------------------------------------------------------- files
\* An artifact name is "<download_id>_<title>.<ext>", here <<download_id, part>>: parts
\* "1" and "2" are the files of the (one or two) requested formats, "out" is the
\* merged output.
\* download_folder.glob(f'{download_id}_*')
Glob(j) == {f \in DOMAIN files : f[1] = j}

\* ------------------------------------------------------------ ProgressHook
\* round(downloaded / total * 100, 1), in tenths of a percent.
RoundTenths(got, total) == (2 * got * 1000 + total) \div (2 * total)
Progress(got, total) == IF total > 0 THEN RoundTenths(got, total) ELSE 0
Hundred == 100 * 10

\* Whether __call__ returns at once: less than 0.3 s since the last applied event.
Throttled(j) == since_update[j] < Throttle

\* The entry __call__ writes for event d (d.status is "downloading" or "finished").
HookEntry(d) ==
    IF d.status = "downloading"
    THEN [status |-> "downloading", progress |-> Progress(d.downloaded_bytes, d.total_bytes),
          speed |-> 0, eta |-> 0]
    ELSE [status |-> "processing", progress |-> Hundred]

\* ProgressHook.__call__(d) for the hook of job j: the new job table and last_update age.
HookTable(j, d) ==
    IF Throttled(j) THEN download_progress ELSE Put(download_progress, j, HookEntry(d))
HookSince(j) ==
    IF Throttled(j) THEN since_update ELSE [since_update EXCEPT ![j] = 0]

\* ---------------------------------------------------------- download_video
\* What the format string makes the engine fetch: one file ("id", or the fallback
\* expression), or two files to merge ("id+id").
FetchShapes == {1, 2}

\* The except clauses of download_video.
DownloadErrorEntry(raw) == [status |-> "error", message |-> raw]
DownloadErrorResponse(raw) ==
    [code |-> 400, success |-> FALSE,
     error |-> IF Contains(raw, "403") THEN MsgBlocked ELSE MsgTryOther]
ExceptionEntry == [status |-> "error"]
ExceptionResponse == [code |-> 500, success |-> FALSE, error |-> MsgFailed]

\* The request arrives; validate_youtube_url; the id and the hook are created.
Request(j) ==
    /\ pc[j] = "idle"
    /\ \E valid \in BOOLEAN :
         IF valid
         THEN /\ pc' = [pc EXCEPT ![j] = "extract"]
              /\ since_update' = [since_update EXCEPT ![j] = Throttle]
              /\ UNCHANGED response
         ELSE /\ pc' = [pc EXCEPT ![j] = "done"]
              /\ response' = [response EXCEPT ![j] =
                     [code |-> 400, success |-> FALSE, error |-> MsgInvalidUrl]]
              /\ UNCHANGED since_update
    /\ UNCHANGED <<download_progress, nfiles, file_no, downloaded, total_bytes, files, polled,
                   cleanups, sweep_slept>>

\* The handler returns: the engine, its position and the hook are gone with it.
Return(j) ==
    /\ pc' = [pc EXCEPT ![j] = "done"]
    /\ since_update' = [since_update EXCEPT ![j] = Throttle]
    /\ nfiles' = [nfiles EXCEPT ![j] = 1]
    /\ file_no' = [file_no EXCEPT ![j] = 1]
    /\ downloaded' = [downloaded EXCEPT ![j] = 0]
    /\ total_bytes' = [total_bytes EXCEPT ![j] = 0]

\* An exception leaves the try block: the handler writes the entry and responds.
Raise(j, entry, resp) ==
    /\ download_progress' = Put(download_progress, j, entry)
    /\ response' = [response EXCEPT ![j] = resp]
    /\ Return(j)

\* extract_info and the format selection succeed: the job is entered as 'starting'.
ExtractInfo(j) ==
    /\ pc[j] = "extract"
    /\ \E shape \in FetchShapes :
         /\ nfiles' = [nfiles EXCEPT ![j] = shape]
         /\ file_no' = [file_no EXCEPT ![j] = 1]
         /\ downloaded' = [downloaded EXCEPT ![j] = 0]
    /\ \E total \in 0..MaxBytes : total_bytes' = [total_bytes EXCEPT ![j] = total]
    /\ download_progress' = Put(download_progress, j,
           [status |-> "starting", progress |-> 0, title |-> "title"])
    /\ pc' = [pc EXCEPT ![j] = "download"]
    /\ UNCHANGED <<since_update, files, response, polled, cleanups, sweep_slept>>

\* extract_info raises DownloadError, or extract_info or the selection raises another
\* exception, before the job is entered.
ExtractFails(j) ==
    /\ pc[j] = "extract"
    /\ \/ \E raw \in RawErrors : Raise(j, DownloadErrorEntry(raw), DownloadErrorResponse(raw))
       \/ Raise(j, ExceptionEntry, ExceptionResponse)
    /\ UNCHANGED <<files, polled, cleanups, sweep_slept>>

\* The engine writes to the current file and reports a byte count to the hook.
EngineProgress(j) ==
    /\ pc[j] = "download"
    /\ \E got \in downloaded[j]..MaxBytes :
         /\ downloaded' = [downloaded EXCEPT ![j] = got]
         /\ download_progress' = HookTable(j,
                [status |-> "downloading", downloaded_bytes |-> got,
                 total_bytes |-> total_bytes[j]])
    /\ since_update' = HookSince(j)
    /\ files' = Put(files, <<j, IF file_no[j] = 1 THEN "1" ELSE "2">>, 0)
    /\ UNCHANGED <<pc, nfiles, file_no, total_bytes, response, polled, cleanups, sweep_slept>>

\* The engine has fetched the current file and reports 'finished' to the hook; it
\* goes on to the next requested file, or to post-processing.
EngineFinished(j) ==
    /\ pc[j] = "download"
    /\ download_progress' = HookTable(j, [status |-> "finished"])
    /\ since_update' = HookSince(j)
    /\ files' = Put(files, <<j, IF file_no[j] = 1 THEN "1" ELSE "2">>, 0)
    /\ IF file_no[j] < nfiles[j]
       THEN /\ file_no' = [file_no EXCEPT ![j] = file_no[j] + 1]
            /\ downloaded' = [downloaded EXCEPT ![j] = 0]
            /\ \E total \in 0..MaxBytes : total_bytes' = [total_bytes EXCEPT ![j] = total]
            /\ UNCHANGED pc
       ELSE /\ pc' = [pc EXCEPT ![j] = "postprocess"]
            /\ UNCHANGED <<file_no, downloaded, total_bytes>>
    /\ UNCHANGED <<nfiles, response, polled, cleanups, sweep_slept>>

\* ydl.download raises: DownloadError, or any other exception.
EngineRaises(j) ==
    /\ pc[j] \in {"download", "postprocess"}
    /\ \/ \E raw \in RawErrors : Raise(j, DownloadErrorEntry(raw), DownloadErrorResponse(raw))
       \/ Raise(j, ExceptionEntry, ExceptionResponse)
    /\ UNCHANGED <<files, polled, cleanups, sweep_slept>>

\* The files the merge of a two-file download reads.
MergeInputs(j) == {<<j, "1">>, <<j, "2">>}
CanPostprocess(j) == nfiles[j] = 1 \/ MergeInputs(j) \subseteq DOMAIN files
\* The folder after post-processing: the merge writes the output and deletes its inputs.
Postprocessed(j) ==
    IF nfiles[j] = 1 THEN files ELSE Put(Remove(files, MergeInputs(j)), <<j, "out">>, 0)

CompletedEntry(j, f) ==
    [status |-> "completed", progress |-> Hundred, filename |-> f,
     download_url |-> <<"/api/file/", j>>]
CompletedResponse(j, f) ==
    [code |-> 200, success |-> TRUE, download_id |-> j, filename |-> f,
     download_url |-> <<"/api/file/", j>>]
NotFoundResponse == [code |-> 500, success |-> FALSE, error |-> MsgNotFound]

\* ydl.download returns; the handler looks for the artifact and responds.
DownloadReturns(j) ==
    /\ pc[j] = "postprocess"
    /\ CanPostprocess(j)
    /\ files' = Postprocessed(j)
    /\ LET found == {f \in DOMAIN Postprocessed(j) : f[1] = j} IN
         IF found = {}
         THEN /\ response' = [response EXCEPT ![j] = NotFoundResponse]
              /\ UNCHANGED download_progress
         ELSE \E f \in found :
              /\ download_progress' = Put(download_progress, j, CompletedEntry(j, f))
              /\ response' = [response EXCEPT ![j] = CompletedResponse(j, f)]
    /\ Return(j)
    /\ UNCHANGED <<polled, cleanups, sweep_slept>>

\* The merge finds an input missing: the engine raises DownloadError.
PostprocessFails(j) ==
    /\ pc[j] = "postprocess"
    /\ ~CanPostprocess(j)
    /\ \E raw \in RawErrors : Raise(j, DownloadErrorEntry(raw), DownloadErrorResponse(raw))
    /\ UNCHANGED <<files, polled, cleanups, sweep_slept>>

\* ------------------------------------------------------------ get_progress
UnknownEntry == [status |-> "unknown"]
GetProgress(j) == IF j \in DOMAIN download_progress THEN download_progress[j] ELSE UnknownEntry

Poll(j) ==
    /\ polled' = [id |-> j, body |-> GetProgress(j)]
    /\ polled' # polled
    /\ UNCHANGED <<pc, download_progress, since_update, nfiles, file_no, downloaded, total_bytes,
                   files, response, cleanups, sweep_slept>>

\* -------------------------------------------------------------- serve_file
\* A file is found and sent; a cleanup thread starts to sleep.  (No file: abort(404),
\* which changes nothing.)
ServeFile(j) ==
    /\ Glob(j) # {}
    /\ Cardinality(cleanups) < MaxCleanups
    /\ \E f \in Glob(j) :
         /\ [path |-> f, slept |-> 0] \notin cleanups
         /\ cleanups' = cleanups \cup {[path |-> f, slept |-> 0]}
    /\ UNCHANGED <<pc, download_progress, since_update, nfiles, file_no, downloaded, total_bytes,
                   files, response, polled, sweep_slept>>

\* serve_file.cleanup after its sleep: unlink the file if it exists.
Cleanup(t) ==
    /\ t \in cleanups
    /\ t.slept >= ServeDelay
    /\ files' = Remove(files, {t.path})
    /\ cleanups' = cleanups \ {t}
    /\ UNCHANGED <<pc, download_progress, since_update, nfiles, file_no, downloaded, total_bytes,
                   response, polled, sweep_slept>>

\* ------------------------------------------------------- cleanup_old_files
OldFiles == {f \in DOMAIN files : files[f] > Retention}

\* PeriodicCleanup as it would be if the sweep also dropped the job table's entries
\* of the jobs whose files it deletes.
PeriodicCleanupEvicting ==
    /\ sweep_slept >= SweepPeriod
    /\ files' = Remove(files, OldFiles)
    /\ download_progress' = Remove(download_progress, {f[1] : f \in OldFiles})
    /\ sweep_slept' = 0
    /\ UNCHANGED <<pc, since_update, nfiles, file_no, downloaded, total_bytes,
                   response, polled, cleanups>>

\* periodic_cleanup wakes up and calls cleanup_old_files.
PeriodicCleanup ==
    /\ sweep_slept >= SweepPeriod
    /\ files' = Remove(files, OldFiles)
    /\ sweep_slept' = 0
    /\ UNCHANGED <<pc, download_progress, since_update, nfiles, file_no, downloaded, total_bytes,
                   response, polled, cleanups>>

\* -------------------------------------------------------------------- time
\* ShortStep tenths of a second pass.
TickShort ==
    /\ \E j \in Jobs : since_update[j] < Throttle
    /\ since_update' = [j \in Jobs |-> Min(since_update[j] + ShortStep, Throttle)]
    /\ UNCHANGED <<pc, download_progress, nfiles, file_no, downloaded, total_bytes, files, response,
                   polled, cleanups, sweep_slept>>

\* LongStep seconds pass.
TickLong ==
    /\ since_update' = [j \in Jobs |-> Throttle]
    /\ files' = [f \in DOMAIN files |-> Min(files[f] + LongStep, Retention + LongStep)]
    /\ cleanups' = {[path |-> t.path, slept |-> Min(t.slept + LongStep, ServeDelay)] : t \in cleanups}
    /\ sweep_slept' = Min(sweep_slept + LongStep, SweepPeriod)
    /\ <<since_update', files', cleanups', sweep_slept'>> # <<since_update, files, cleanups, sweep_slept>>
    /\ UNCHANGED <<pc, download_progress, nfiles, file_no, downloaded, total_bytes, response, polled>>

\* ================================================================ formats
\* Python's None, and a key missing from a dict (both are numbers here, so that they
\* compare with the numbers they stand in for).
None == 0 - 1
Absent == 0 - 2
\* bool(x) of a number or None, and "x or y".
Truthy(x) == x # None /\ x # 0
OrElse(x, y) == IF Truthy(x) THEN x ELSE y
\* d.get(key, default) of a field that may be missing.
GetOr(x, default) == IF x = Absent THEN default ELSE x

Pending == [pending |-> TRUE]
IsPending(r) == "pending" \in DOMAIN r
Raised(what) == [raised |-> what]
HasRaised(r) == "raised" \in DOMAIN r

\* A variant of the engine's list, without its format_id.  filesize_approx is read
\* only when filesize is None or 0.
Sizes == { [filesize |-> None, filesize_approx |-> Absent],
           [filesize |-> None, filesize_approx |-> None],
           [filesize |-> None, filesize_approx |-> 1],
           [filesize |-> 2, filesize_approx |-> Absent] }
VideoFields(heights, tbrs, exts, sizes) ==
    { [vcodec |-> "avc1", acodec |-> a, height |-> h, tbr |-> t, abr |-> None, ext |-> e,
       filesize |-> z.filesize, filesize_approx |-> z.filesize_approx] :
      a \in {"none", "mp4a"}, h \in heights, t \in tbrs, e \in exts, z \in sizes }
AudioFields(abrs, exts, sizes) ==
    { [vcodec |-> "none", acodec |-> "mp4a", height |-> None, tbr |-> None, abr |-> b,
       ext |-> e, filesize |-> z.filesize, filesize_approx |-> z.filesize_approx] :
      b \in abrs, e \in exts, z \in sizes }

\* The lists of at most MaxLen variants over a set of fields; a variant's format_id
\* is its place in the list the engine returned.
FormatIds == <<"18", "22", "137", "140", "251">>
WithId(v, i) == [format_id |-> FormatIds[i]] @@ v
Lists(fields) ==
    UNION { { [i \in 1..n |-> WithId(s[i], i)] : s \in [1..n -> fields] } : n \in 0..MaxLen }

\* f.get('filesize') or f.get('filesize_approx', 0)
FileSize(f) == OrElse(f.filesize, GetOr(f.filesize_approx, 0))
HasVideo(f) == f.vcodec # "none"
HasAudio(f) == f.acodec # "none"
AudioOnly(f) == HasAudio(f) /\ ~HasVideo(f)

\* ----------------------------------------------------------- get_video_info
MinHeight == 144
MinAbr == 48
StandardBitrates == <<64, 96, 128, 160, 192, 256, 320>>
Abs(x) == IF x < 0 THEN 0 - x ELSE x
\* min(standard_bitrates, key=lambda x: abs(x - abr)): the first of the nearest.
RoundedAbr(abr) ==
    LET n == Len(StandardBitrates)
        i == CHOOSE i \in 1..n :
               \A k \in 1..n :
                 \/ Abs(StandardBitrates[i] - abr) < Abs(StandardBitrates[k] - abr)
                 \/ (Abs(StandardBitrates[i] - abr) = Abs(StandardBitrates[k] - abr) /\ i <= k)
    IN  StandardBitrates[i]

VideoEntry(f) ==
    [format_id |-> f.format_id, height |-> f.height, ext |-> f.ext, filesize |-> FileSize(f),
     has_audio |-> HasAudio(f), tbr |-> f.tbr]
AudioEntry(f) ==
    [format_id |-> f.format_id, ext |-> f.ext, abr |-> f.abr, abr_rounded |-> RoundedAbr(f.abr),
     filesize |-> FileSize(f)]

\* "current_score > (existing['has_audio'], existing['filesize'])" with current_score =
\* (has_audio, filesize or 0): "yes", "no", or "TypeError" when the tuples first differ
\* in the size and the existing one is None.
VideoBetter(f, existing) ==
    IF HasAudio(f) # existing.has_audio THEN (IF HasAudio(f) THEN "yes" ELSE "no")
    ELSE IF OrElse(FileSize(f), 0) = existing.filesize THEN "no"
    ELSE IF existing.filesize = None THEN "TypeError"
    ELSE IF OrElse(FileSize(f), 0) > existing.filesize THEN "yes" ELSE "no"
\* "(filesize or 0) > existing.get('filesize', 0)"
AudioBetter(f, existing) ==
    IF existing.filesize = None THEN "TypeError"
    ELSE IF OrElse(FileSize(f), 0) > existing.filesize THEN "yes" ELSE "no"

\* One pass of the loop over formats: acc holds best_video_by_height and
\* best_audio_by_bitrate, or the exception raised.
GroupStep(acc, f) ==
    IF HasRaised(acc) THEN acc
    ELSE IF HasVideo(f)
    THEN IF Truthy(f.height) /\ f.height >= MinHeight
         THEN LET better == IF f.height \in DOMAIN acc.video
                            THEN VideoBetter(f, acc.video[f.height]) ELSE "yes"
              IN  IF better = "TypeError" THEN Raised("TypeError")
                  ELSE IF better = "yes"
                  THEN [acc EXCEPT !.video = Put(acc.video, f.height, VideoEntry(f))]
                  ELSE acc
         ELSE acc
    ELSE IF AudioOnly(f)
    THEN IF Truthy(f.abr) /\ f.abr >= MinAbr
         THEN LET key == <<f.ext, RoundedAbr(f.abr)>>
                  better == IF key \in DOMAIN acc.audio
                            THEN AudioBetter(f, acc.audio[key]) ELSE "yes"
              IN  IF better = "TypeError" THEN Raised("TypeError")
                  ELSE IF better = "yes"
                  THEN [acc EXCEPT !.audio = Put(acc.audio, key, AudioEntry(f))]
                  ELSE acc
         ELSE acc
    ELSE acc

RECURSIVE GroupFrom(_, _, _)
GroupFrom(fs, i, acc) == IF i > Len(fs) THEN acc ELSE GroupFrom(fs, i + 1, GroupStep(acc, fs[i]))
\* The grouping of get_video_info: the two dicts, or the exception.
Normalize(fs) == GroupFrom(fs, 1, [video |-> EmptyDict, audio |-> EmptyDict])

InfoFormats ==
    Lists(VideoFields({100, 144, 720}, {None, 1}, {"mp4"}, Sizes)
          \cup AudioFields({None, 47, 129}, {"m4a", "webm"}, Sizes))

\* /api/info answers for the url whose variants are formats.
GetVideoInfo ==
    /\ IsPending(candidates)
    /\ candidates' = Normalize(formats)
    /\ UNCHANGED <<job_vars, formats, quality, fetch, convert_vars>>

\* ------------------------------------------- download_video: video format
\* A request's quality: a JSON string (its characters), number or null.
Str(chars) == [type |-> "str", chars |-> chars]
AsciiDigits == <<"0", "1", "2", "3", "4", "5", "6", "7", "8", "9">>
\* Characters str.isdigit accepts; int() accepts only the decimal ones among them.
IsDecimalChar(c) == \E d \in 1..Len(AsciiDigits) : AsciiDigits[d] = c
IsDigitChar(c) == IsDecimalChar(c) \/ c = "superscript-2"
DigitValue(c) == (CHOOSE d \in 1..Len(AsciiDigits) : AsciiDigits[d] = c) - 1
\* str.isdigit()
StrIsDigit(chars) == Len(chars) > 0 /\ \A i \in 1..Len(chars) : IsDigitChar(chars[i])
RECURSIVE DecimalValue(_, _)
DecimalValue(chars, n) ==
    IF n = 0 THEN 0 ELSE 10 * DecimalValue(chars, n - 1) + DigitValue(chars[n])
\* int(quality) of a string that passed isdigit.
IntOf(chars) ==
    IF \A i \in 1..Len(chars) : IsDecimalChar(chars[i])
    THEN [value |-> DecimalValue(chars, Len(chars))]
    ELSE Raised("ValueError")

DefaultHeight == 720
\* target_height = int(quality) if quality.isdigit() else 720
TargetHeight(q) ==
    IF q.type # "str" THEN Raised("AttributeError")
    ELSE IF StrIsDigit(q.chars) THEN IntOf(q.chars)
    ELSE [value |-> DefaultHeight]

\* The places in formats of the variants of exactly the target height with video.
Matching(fs, target) == {i \in 1..Len(fs) : fs[i].height = target /\ HasVideo(fs[i])}

Bit(b) == IF b THEN 1 ELSE 0
\* The sort key (has_audio, tbr, is_mp4, filesize) of a matching format.
SortKey(f) ==
    <<Bit(HasAudio(f)), OrElse(f.tbr, 0), Bit(f.ext = "mp4"), OrElse(FileSize(f), 0)>>
\* Tuple comparison a > b, for tuples of numbers of one length.
TupleGreater(a, b) ==
    \E k \in 1..Len(a) : a[k] > b[k] /\ \A m \in 1..(k - 1) : a[m] = b[m]
\* matching_formats[0] after the stable sort with reverse=True: the first of the
\* formats no other exceeds.
BestMatch(fs, target) ==
    CHOOSE i \in Matching(fs, target) :
      \A k \in Matching(fs, target) :
        /\ ~TupleGreater(SortKey(fs[k]), SortKey(fs[i]))
        /\ (SortKey(fs[k]) = SortKey(fs[i]) => i <= k)

AudioOnlyPlaces(fs) == {i \in 1..Len(fs) : AudioOnly(fs[i])}
\* audio_formats.sort(key=abr, reverse=True) compares None with a number (TypeError)
\* when it has anything to compare.
AudioSortRaises(fs) ==
    Cardinality(AudioOnlyPlaces(fs)) >= 2 /\ \E i \in AudioOnlyPlaces(fs) : fs[i].abr = None
\* audio_formats[0] after the sort: the first of the highest abr.
BestAudio(fs) ==
    CHOOSE i \in AudioOnlyPlaces(fs) :
      \A k \in AudioOnlyPlaces(fs) :
        /\ fs[k].abr <= fs[i].abr
        /\ (fs[k].abr = fs[i].abr => i <= k)

\* ExactFormat as it would be if it merged whenever there is audio to merge.
ExactFormatMergingAlways(fs, i) ==
    IF AudioOnlyPlaces(fs) = {}
    THEN [format |-> <<fs[i].format_id>>, merge_output_format |-> "mp4"]
    ELSE IF AudioSortRaises(fs) THEN Raised("TypeError")
    ELSE [format |-> <<fs[i].format_id, "+", fs[BestAudio(fs)].format_id>>,
          merge_output_format |-> "mp4"]

\* The format string for the best match at place i: the format alone when it carries
\* audio or there is no audio to merge, else "video+audio".
ExactFormat(fs, i) ==
    IF HasAudio(fs[i]) \/ AudioOnlyPlaces(fs) = {}
    THEN [format |-> <<fs[i].format_id>>, merge_output_format |-> "mp4"]
    ELSE IF AudioSortRaises(fs) THEN Raised("TypeError")
    ELSE [format |-> <<fs[i].format_id, "+", fs[BestAudio(fs)].format_id>>,
          merge_output_format |-> "mp4"]

\* f"best[height<={target_height}]/best"
FallbackFormat(target) ==
    [format |-> <<"best", "[height<=", target, "]/best">>, merge_output_format |-> "mp4"]

\* The video branch of download_video: ydl_opts' format, or the exception.
SelectVideo(fs, q) ==
    LET t == TargetHeight(q) IN
      IF HasRaised(t) THEN t
      ELSE IF Matching(fs, t.value) # {} THEN ExactFormat(fs, BestMatch(fs, t.value))
      ELSE FallbackFormat(t.value)

Qualities ==
    { Str(<<"7", "2", "0">>), Str(<<"1", "4", "4">>), Str(<<"h", "d">>), Str(<<>>),
      Str(<<"superscript-2">>), [type |-> "int", value |-> 720] }
SelectFormats ==
    Lists(VideoFields({144, 720}, {None, 1}, {"mp4", "webm"},
                      {z \in Sizes : z.filesize_approx = Absent})
          \cup AudioFields({None, 64, 128}, {"m4a"}, {z \in Sizes : z.filesize = 2}))

\* /api/download of a video decides its format.
SelectFormat ==
    /\ IsPending(fetch)
    /\ fetch' = SelectVideo(formats, quality)
    /\ UNCHANGED <<job_vars, formats, quality, candidates, convert_vars>>

\* ------------------------------------------- download_video: audio format
\* data.get('convert_to', None) of a request that names no target.
NoTarget == "None"
\* The characters of a format id.
Spelling(id) ==
    CASE id = "18" -> <<"1", "8">>
      [] id = "22" -> <<"2", "2">>
      [] id = "137" -> <<"1", "3", "7">>
      [] id = "140" -> <<"1", "4", "0">>
      [] id = "251" -> <<"2", "5", "1">>
\* "selected_format_id in format_lookup", and the place of the variant it names.
Lookup(fs, q) == {i \in 1..Len(fs) : q.type = "str" /\ Spelling(fs[i].format_id) = q.chars}
\* audio_formats[0]: the first audio-only variant in the engine's order.
FirstAudio(fs) == CHOOSE i \in AudioOnlyPlaces(fs) : \A k \in AudioOnlyPlaces(fs) : i <= k
\* selected_format_id and selected_fmt (place 0: the empty dict).
SelectedAudio(fs, q) ==
    IF Lookup(fs, q) # {} THEN LET i == CHOOSE i \in Lookup(fs, q) : TRUE
                               IN  [id |-> fs[i].format_id, place |-> i]
    ELSE IF AudioOnlyPlaces(fs) # {}
    THEN [id |-> fs[FirstAudio(fs)].format_id, place |-> FirstAudio(fs)]
    ELSE [id |-> "bestaudio", place |-> 0]
DefaultExt == "m4a"
SelectedExt(fs, sel) == IF sel.place = 0 THEN DefaultExt ELSE fs[sel.place].ext
DefaultBitrate == 192
\* int(selected_fmt.get('abr', 192)): the bitrate, or TypeError when abr is None.
TargetBitrate(fs, sel) ==
    IF sel.place = 0 THEN [value |-> DefaultBitrate]
    ELSE IF fs[sel.place].abr = None THEN Raised("TypeError")
    ELSE [value |-> fs[sel.place].abr]
ExtractAudio(bitrate) ==
    [key |-> "FFmpegExtractAudio", preferredcodec |-> "mp3", preferredquality |-> bitrate]

\* The audio branch of download_video: ydl_opts' format and postprocessors, or the
\* exception.
SelectAudio(fs, q, conv, ffmpeg) ==
    LET sel == SelectedAudio(fs, q) IN
      IF conv = "mp3" /\ ffmpeg
      THEN IF HasRaised(TargetBitrate(fs, sel)) THEN TargetBitrate(fs, sel)
           ELSE [format |-> <<sel.id>>,
                 postprocessors |-> <<ExtractAudio(TargetBitrate(fs, sel).value)>>]
      ELSE [format |-> <<sel.id>>, postprocessors |-> <<>>]

AudioQualities == { Str(<<"1", "8">>), Str(<<"2", "2">>), Str(<<"9", "9">>) }
ConvertTargets == {NoTarget, "mp3", "m4a"}
AudioSelectFormats ==
    Lists(AudioFields({None, 128}, {"m4a", "mp3"}, {z \in Sizes : z.filesize = 2})
          \cup VideoFields({720}, {None}, {"mp4"}, {z \in Sizes : z.filesize = 2}))

\* /api/download of an audio decides its format and its postprocessors.
SelectAudioFormat ==
    /\ IsPending(fetch)
    /\ fetch' = SelectAudio(formats, quality, convert_to, has_ffmpeg)
    /\ UNCHANGED <<job_vars, formats, quality, candidates, convert_vars>>

\* ------------------------------------------------------- the job's states
Terminal == {"completed", "error"}
InFlight == {"starting", "downloading", "processing"}
Known(j) == j \in DOMAIN download_progress
Status(j) == download_progress[j].status

\* C1: a job's progress never decreases from one 'downloading' entry to the next, and
\* is 100 when the job enters 'processing'.
C1_ProgressMonotone ==
    [][\A j \in Jobs :
         (Known(j) /\ Known(j)') =>
           /\ (Status(j) = "downloading" /\ Status(j)' = "downloading")
                => download_progress'[j].progress >= download_progress[j].progress
           /\ (Status(j) # "processing" /\ Status(j)' = "processing")
                => download_progress'[j].progress = Hundred]_vars

\* C2: no step changes the entry of a job that is completed or failed.
C2_TerminalIsFinal ==
    [][\A j \in Jobs :
         (Known(j) /\ Status(j) \in Terminal)
           => (Known(j)' /\ download_progress'[j] = download_progress[j])]_vars

\* C2's case: a completed job was polled, and its artifact has since been deleted (by
\* the sweeper or by the cleanup that follows serving it).
C2_Witness ==
    \E j \in Jobs :
      /\ Known(j) /\ Status(j) = "completed"
      /\ polled.body = download_progress[j]
      /\ Glob(j) = {}

\* C3: every 'finished' event of the engine puts the job in 'processing' at 100, and
\* a job in 'processing' never returns to 'downloading'.
C3_FinishedEntersProcessing ==
    [][\A j \in Jobs :
         /\ EngineFinished(j)
              => (Status(j)' = "processing" /\ download_progress'[j].progress = Hundred)
         /\ (Known(j) /\ Status(j) = "processing")
              => (Known(j)' /\ Status(j)' # "downloading")]_vars

\* C4: when the engine reported success and no artifact was found, the job is failed
\* and its error is set by the time the handler has responded.
C4_ArtifactMissingFails ==
    \A j \in Jobs :
      response[j] = NotFoundResponse
        => /\ Known(j) /\ Status(j) = "error"
           /\ "message" \in DOMAIN download_progress[j]
           /\ download_progress[j].message # <<>>

\* C5: the error text of a job's entry, and of anything a poll returned, is one of
\* the classified messages, never the engine's raw text.
ClassifiedMessages == {MsgBlocked, MsgTryOther, MsgFailed, MsgNotFound}
Classified(entry) == "message" \in DOMAIN entry => entry.message \in ClassifiedMessages
C5_ErrorIsClassified ==
    /\ \A j \in Jobs : Known(j) => Classified(download_progress[j])
    /\ Classified(polled.body)

\* C9: while a job is queued, fetching or processing, its caller already holds its
\* job id (the download request has answered with it).
C9_IdReturnedWhileInFlight ==
    \A j \in Jobs :
      (Known(j) /\ Status(j) \in InFlight) => "download_id" \in DOMAIN response[j]

\* C13: the progress of every entry of the job table, and of anything a poll returned,
\* lies between 0 and 100.
C13_ProgressWithinRange ==
    /\ \A j \in Jobs :
         (Known(j) /\ "progress" \in DOMAIN download_progress[j]) =>
           (download_progress[j].progress >= 0 /\ download_progress[j].progress <= Hundred)
    /\ "progress" \in DOMAIN polled.body =>
         (polled.body.progress >= 0 /\ polled.body.progress <= Hundred)

\* C14: a completed job is eventually collected: its entry leaves the job table and
\* its artifact the download folder, and a poll of its id then answers 'unknown'.
Collected(j) == ~Known(j) /\ Glob(j) = {} /\ GetProgress(j) = UnknownEntry
C14_EventuallyCollected ==
    \A j \in Jobs : (Known(j) /\ Status(j) = "completed") ~> Collected(j)

\* The files the engine has fetched for a download that has not returned yet.
Fetched(j) ==
    IF pc[j] = "postprocess" THEN {<<j, "1">>} \cup (IF nfiles[j] = 1 THEN {} ELSE {<<j, "2">>})
    ELSE IF pc[j] = "download" /\ file_no[j] > 1 THEN {<<j, "1">>}
    ELSE {}

\* C16: the files a running download has fetched are in the download folder until the
\* engine has post-processed them: neither the sweep nor a post-serve cleanup deletes
\* a file of a job that is not yet completed or failed.
C16_InFlightFilesKept ==
    \A j \in Jobs : Fetched(j) \subseteq DOMAIN files

\* ---------------------------------------------------- claims on the formats
VariantOf(fs, id) == fs[CHOOSE i \in 1..Len(fs) : fs[i].format_id = id]
IsFormatId(fs, id) == \E i \in 1..Len(fs) : fs[i].format_id = id
Decided(r) == ~IsPending(r) /\ ~HasRaised(r)
\* A format string that names variants: "id" or "id+id".
NamesPrimary(r) == Decided(r) /\ Len(r.format) \in {1, 3}

\* C6: when the primary variant of the decided format carries audio the format is
\* that variant's id alone; a merge names a video-only primary and an audio-only
\* variant of the list.
C6_NoMergeWithAudio ==
    NamesPrimary(fetch) =>
      /\ IsFormatId(formats, fetch.format[1])
      /\ HasAudio(VariantOf(formats, fetch.format[1])) => Len(fetch.format) = 1
      /\ Len(fetch.format) = 3 =>
           /\ ~HasAudio(VariantOf(formats, fetch.format[1]))
           /\ IsFormatId(formats, fetch.format[3])
           /\ AudioOnly(VariantOf(formats, fetch.format[3]))

\* C6's case: the primary carries audio while the list holds audio that could have
\* been merged, and the format is the primary alone.
C6_Witness ==
    /\ NamesPrimary(fetch)
    /\ HasAudio(VariantOf(formats, fetch.format[1]))
    /\ AudioOnlyPlaces(formats) # {}
    /\ Len(fetch.format) = 1

\* The target height as the spec gives it: the numeric input, or 720.
IsNumeric(q) ==
    \/ q.type = "int"
    \/ q.type = "str" /\ Len(q.chars) > 0 /\ \A i \in 1..Len(q.chars) : IsDecimalChar(q.chars[i])
SpecTarget(q) ==
    IF ~IsNumeric(q) THEN 720
    ELSE IF q.type = "int" THEN q.value ELSE DecimalValue(q.chars, Len(q.chars))

\* C7: with no video-capable variant of exactly the target height, the selection
\* raises nothing and decides the fallback "best at or below the target height".
C7_FallbackNeverFails ==
    (~IsPending(fetch) /\ Matching(formats, SpecTarget(quality)) = {}) =>
      /\ ~HasRaised(fetch)
      /\ Len(fetch.format) = 4
      /\ fetch.format = <<"best", "[height<=", SpecTarget(quality), "]/best">>

\* The bijections of 1..n, and a list in the order one of them gives.
Perms(n) == {p \in [1..n -> 1..n] : \A i, k \in 1..n : p[i] = p[k] => i = k}
Permuted(fs, p) == [i \in 1..Len(fs) |-> fs[p[i]]]
\* The variant ids a grouping selected, by group (or the exception).
Selected(c) ==
    IF HasRaised(c) THEN c
    ELSE [video |-> [h \in DOMAIN c.video |-> c.video[h].format_id],
          audio |-> [k \in DOMAIN c.audio |-> c.audio[k].format_id]]

\* C8: the grouping selects the same variant id for every height and bucket whatever
\* the order of the list.
C8_OrderIndependent ==
    ~IsPending(candidates) =>
      \A p \in Perms(Len(formats)) :
        Selected(Normalize(Permuted(formats, p))) = Selected(candidates)

\* The spec's rank of a video variant: (audio-capable, total bitrate or 0, size or 0).
SpecRank(f) == <<Bit(HasAudio(f)), OrElse(f.tbr, 0), OrElse(FileSize(f), 0)>>
AtHeight(fs, h) == {i \in 1..Len(fs) : HasVideo(fs[i]) /\ fs[i].height = h}
SpecBest(fs, h) ==
    CHOOSE i \in AtHeight(fs, h) :
      \A k \in AtHeight(fs, h) :
        /\ ~TupleGreater(SpecRank(fs[k]), SpecRank(fs[i]))
        /\ (SpecRank(fs[k]) = SpecRank(fs[i]) => i <= k)

\* C10: for every height of at least 144 in the list, the grouping keeps the first
\* of the video-capable variants of the highest (audio, bitrate, size) rank.
C10_KeepsHighestRank ==
    ~IsPending(candidates) =>
      \A i \in 1..Len(formats) :
        (HasVideo(formats[i]) /\ formats[i].height >= 144) =>
          /\ ~HasRaised(candidates)
          /\ formats[i].height \in DOMAIN candidates.video
          /\ candidates.video[formats[i].height].format_id
               = formats[SpecBest(formats, formats[i].height)].format_id

\* The spec's rounding of a bitrate: the nearest value of the ladder, the lower of two
\* equally near.
Ladder == {64, 96, 128, 160, 192, 256, 320}
SpecRounded(abr) ==
    CHOOSE r \in Ladder :
      \A s \in Ladder :
        \/ Abs(r - abr) < Abs(s - abr)
        \/ (Abs(r - abr) = Abs(s - abr) /\ r <= s)
\* The audio-only variants of at least 48 kbps, and those among them of one bucket.
Bucketed(fs) == {i \in 1..Len(fs) : AudioOnly(fs[i]) /\ fs[i].abr >= 48}
InBucket(fs, key) ==
    {i \in Bucketed(fs) : <<fs[i].ext, SpecRounded(fs[i].abr)>> = key}
SizeOrZero(f) == IF FileSize(f) \in {None, Absent} THEN 0 ELSE FileSize(f)

\* C11: the grouping raises nothing; its audio buckets are exactly the (container,
\* rounded bitrate) pairs of the audio-only variants of at least 48 kbps, and each
\* bucket keeps one variant of the bucket, of the largest file size (no size is 0).
C11_BucketsKeepLargest ==
    ~IsPending(candidates) =>
      /\ ~HasRaised(candidates)
      /\ DOMAIN candidates.audio
           = {<<formats[i].ext, SpecRounded(formats[i].abr)>> : i \in Bucketed(formats)}
      /\ \A key \in DOMAIN candidates.audio :
           \E i \in InBucket(formats, key) :
             /\ candidates.audio[key].format_id = formats[i].format_id
             /\ candidates.audio[key].abr_rounded = key[2]
             /\ \A k \in InBucket(formats, key) :
                  SizeOrZero(formats[k]) <= SizeOrZero(formats[i])

\* The variant the audio branch selected (none when it fell back on "bestaudio").
Transcodes(r) == r.postprocessors # <<>>
C12_Selected == SelectedAudio(formats, quality)

\* C12: the audio branch adds a transcode step only when a conversion target was
\* requested, a transcoder is available and the target differs from the container of
\* the selected variant; it adds none when target and container are the same.
C12_NoTranscodeToSameContainer ==
    (Decided(fetch) /\ C12_Selected.place # 0) =>
      /\ convert_to = formats[C12_Selected.place].ext => ~Transcodes(fetch)
      /\ Transcodes(fetch) =>
           /\ convert_to # NoTarget
           /\ has_ffmpeg
           /\ convert_to # formats[C12_Selected.place].ext

\* The height a download request asks for, when its quality spells one.
C15_Height == TargetHeight(quality).value

\* C15: when the info query listed the requested height, the download's primary
\* variant is the variant the info query listed for that height.
C15_InfoAndDownloadAgree ==
    (Decided(candidates) /\ ~IsPending(fetch) /\ C15_Height \in DOMAIN candidates.video) =>
      /\ NamesPrimary(fetch)
      /\ fetch.format[1] = candidates.video[C15_Height].format_id
      /\ OrElse(FileSize(VariantOf(formats, fetch.format[1])), 0)
           = OrElse(candidates.video[C15_Height].filesize, 0)

\* ----------------------------------------------------------- specification
InitJobs ==
    /\ pc = [j \in Jobs |-> "idle"]
    /\ download_progress = EmptyDict
    /\ since_update = [j \in Jobs |-> Throttle]
    /\ nfiles = [j \in Jobs |-> 1]
    /\ file_no = [j \in Jobs |-> 1]
    /\ downloaded = [j \in Jobs |-> 0]
    /\ total_bytes = [j \in Jobs |-> 0]
    /\ files = EmptyDict
    /\ response = [j \in Jobs |-> NoResponse]
    /\ polled = [id |-> "", body |-> UnknownEntry]
    /\ cleanups = {}
    /\ sweep_slept = 0

\* No conversion asked for.
NoConversion ==
    /\ convert_to = NoTarget
    /\ has_ffmpeg = FALSE

NoFormats ==
    /\ formats = <<>>
    /\ quality = Str(<<>>)
    /\ fetch = Pending
    /\ candidates = Pending
    /\ NoConversion

Init == InitJobs /\ NoFormats

JobNext ==
    \/ \E j \in Jobs : Request(j)
    \/ \E j \in Jobs : ExtractInfo(j)
    \/ \E j \in Jobs : ExtractFails(j)
    \/ \E j \in Jobs : EngineProgress(j)
    \/ \E j \in Jobs : EngineFinished(j)
    \/ \E j \in Jobs : EngineRaises(j)
    \/ \E j \in Jobs : DownloadReturns(j)
    \/ \E j \in Jobs : PostprocessFails(j)
    \/ \E j \in Jobs : Poll(j)
    \/ \E j \in Jobs : ServeFile(j)
    \/ \E t \in cleanups : Cleanup(t)
    \/ PeriodicCleanup
    \/ TickShort
    \/ TickLong

Next == JobNext /\ UNCHANGED <<format_vars, convert_vars>>

Spec == Init /\ [][Next]_vars

\* Time passes, the sweeper thread and the cleanup threads run: each of them is a
\* daemon thread of its own that only sleeps and deletes.
Fairness ==
    /\ WF_job_vars(TickLong)
    /\ WF_job_vars(PeriodicCleanup)
    /\ WF_job_vars(\E t \in cleanups : Cleanup(t))
SpecLive == Spec /\ Fairness

\* The info query alone, over every variant list.
InitInfo ==
    /\ InitJobs
    /\ formats \in InfoFormats
    /\ quality = Str(<<>>)
    /\ fetch = Pending
    /\ candidates = Pending
    /\ NoConversion
NextInfo == GetVideoInfo
SpecInfo == InitInfo /\ [][NextInfo]_vars

\* The format selection of a video download alone, over every variant list and quality.
InitSelect ==
    /\ InitJobs
    /\ formats \in SelectFormats
    /\ quality \in Qualities
    /\ fetch = Pending
    /\ candidates = Pending
    /\ NoConversion
NextSelect == SelectFormat
SpecSelect == InitSelect /\ [][NextSelect]_vars

\* The info query alone, over lists of audio-only variants around the bucket borders.
AudioFormats ==
    Lists(AudioFields({47, 48, 80, 129, 191}, {"m4a", "webm"}, Sizes))
InitAudio ==
    /\ InitJobs
    /\ formats \in AudioFormats
    /\ quality = Str(<<>>)
    /\ fetch = Pending
    /\ candidates = Pending
    /\ NoConversion
SpecAudio == InitAudio /\ [][NextInfo]_vars

\* The format selection of an audio download alone, over every variant list, quality,
\* conversion target and transcoder.
InitAudioSelect ==
    /\ InitJobs
    /\ formats \in AudioSelectFormats
    /\ quality \in AudioQualities
    /\ fetch = Pending
    /\ candidates = Pending
    /\ convert_to \in ConvertTargets
    /\ has_ffmpeg \in BOOLEAN
NextAudioSelect == SelectAudioFormat
SpecAudioSelect == InitAudioSelect /\ [][NextAudioSelect]_vars

\* The info query and a video download of one of its heights, over the same list.
AgreeFormats ==
    Lists(VideoFields({144, 720}, {None, 1}, {"mp4", "webm"},
                      {z \in Sizes : z.filesize_approx = Absent})
          \cup AudioFields({128}, {"m4a"}, {z \in Sizes : z.filesize = 2}))
HeightQualities == { Str(<<"7", "2", "0">>), Str(<<"1", "4", "4">>) }
InitAgree ==
    /\ InitJobs
    /\ formats \in AgreeFormats
    /\ quality \in HeightQualities
    /\ fetch = Pending
    /\ candidates = Pending
    /\ NoConversion
NextAgree == GetVideoInfo \/ SelectFormat
SpecAgree == InitAgree /\ [][NextAgree]_vars
====
